---- MODULE Spec2Model ----
(***************************************************************************)
(* Topological sorting of a citation graph: the Kahn, DFS and BFS sorters  *)
(* and the order validator of src/src/algorithms.                          *)
(*                                                                         *)
(* A graph is a Python dict {node_id: [successor_id, ...]}.  Node ids are  *)
(* opaque: the code only hashes them and compares them for equality, so    *)
(* every graph is, up to a renaming of its ids, a graph whose i-th key (in *)
(* dict iteration order) is the id i.  The variable graph is therefore the *)
(* sequence of the successor lists: graph[i] is the list of key i, the     *)
(* keys in iteration order are 1..Len(graph), and an id greater than       *)
(* Len(graph) that occurs in a successor list is a node that is no key.    *)
(* Successor lists are sequences: order and repetitions are kept.          *)
(***************************************************************************)
EXTENDS Integers, Sequences, FiniteSets, TLC

\* Bounds.  Node ids are 1..MaxNodes.  Under Spec (the sorters, in the order of
\* run_all_algorithms) and SpecR (each sorter called twice) a graph has at most
\* MaxEdges successor entries in all; under SpecV (the validator on any order)
\* it has at most MaxVEdges, and an order has at most MaxOrderLen entries;
\* under SpecC (the sorters interleaved) a graph has at most MaxCNodes nodes
\* and MaxCEdges successor entries; under SpecL (the grouping of levels) a
\* level is at most MaxLevel; under SpecT (the calls with their scheduling) a
\* graph has at most MaxTNodes nodes and MaxTEdges successor entries.
MaxNodes == 3
MaxEdges == 3
MaxVEdges == 2
MaxOrderLen == 3
MaxCNodes == 2
MaxCEdges == 2
MaxLevel == 2
MaxTNodes == 3
MaxTEdges == 2

VARIABLES
    graph,       \* the caller's adjacency mapping (see above)
    kahn,        \* the frame of topological_sort_kahn
    dfs,         \* the frame of topological_sort_dfs and of its nested dfs calls
    bfs,         \* the frame of topological_sort_bfs
    validation,  \* the last call of validate_topological_order and its outcome
    earlier,     \* what the caller got from the previous call of each sorter
    analysis     \* the last call of analyze_dependency_levels and its result

vars == <<graph, kahn, dfs, bfs, validation, earlier, analysis>>

----------------------------------------------------------------------------
(* The graph as the code reads it *)

\* `for node in graph`: the keys in iteration order.
Keys(g) == [i \in 1..Len(g) |-> i]

\* `graph.get(node, [])`: the successor list, empty for a node that is no key.
Succ(g, node) == IF node \in 1..Len(g) THEN g[node] ELSE <<>>

RECURSIVE EdgesFrom(_, _)
\* The pairs <<node, neighbor>> met by
\* `for node in graph: for neighbor in graph[node]`, from key i on.
EdgesFrom(g, i) ==
    IF i > Len(g) THEN <<>>
    ELSE [j \in 1..Len(g[i]) |-> <<i, g[i][j]>>] \o EdgesFrom(g, i + 1)

Edges(g) == EdgesFrom(g, 1)

\* Every id that is a key or occurs in a successor list.
NodesOf(g) == (1..Len(g)) \cup UNION {{g[i][j] : j \in 1..Len(g[i])} : i \in 1..Len(g)}

\* The edges as a set of pairs <<node, neighbor>>.
EdgeSet(g) == UNION {{<<i, g[i][j]>> : j \in 1..Len(g[i])} : i \in 1..Len(g)}

----------------------------------------------------------------------------
(* Python containers *)

\* reversed list, `result_stack[::-1]`
Reverse(s) == [i \in 1..Len(s) |-> s[Len(s) + 1 - i]]

\* the set of a list's elements
Range(s) == {s[i] : i \in 1..Len(s)}

\* A dict is the sequence of its keys in insertion order (its iteration order)
\* and the value of each key.
EmptyDict == [keys |-> <<>>, val |-> <<>>]

\* `d.get(k, default)`
DictGet(d, k, default) == IF k \in DOMAIN d.val THEN d.val[k] ELSE default

\* `d[k] = v`: a new key goes last, a known key keeps its place.
DictSet(d, k, v) ==
    IF k \in DOMAIN d.val
    THEN [d EXCEPT !.val = [x \in DOMAIN d.val |-> IF x = k THEN v ELSE d.val[x]]]
    ELSE [keys |-> Append(d.keys, k),
          val |-> [x \in DOMAIN d.val \cup {k} |-> IF x = k THEN v ELSE d.val[x]]]

RECURSIVE ZeroKeysFrom(_, _)
\* `[node for node in in_degree if in_degree[node] == 0]`, from the i-th key on
ZeroKeysFrom(d, i) ==
    IF i > Len(d.keys) THEN <<>>
    ELSE (IF d.val[d.keys[i]] = 0 THEN <<d.keys[i]>> ELSE <<>>)
         \o ZeroKeysFrom(d, i + 1)

----------------------------------------------------------------------------
(* topological_sort_kahn *)

RECURSIVE KahnInitZero(_, _)
\* `for node in graph: in_degree[node] = 0`, from key i on
KahnInitZero(g, i) ==
    IF i > Len(g) THEN EmptyDict
    ELSE LET rest == KahnInitZero(g, i + 1)
         IN  [keys |-> <<i>> \o rest.keys,
              val |-> [x \in {i} \cup DOMAIN rest.val |-> 0]]

RECURSIVE KahnCountFromAssigns(_, _, _)
\* Faulty variant of KahnCountFrom: `in_degree[neighbor] = 1`, an assignment
\* for the increment.
KahnCountFromAssigns(d, es, i) ==
    IF i > Len(es) THEN d
    ELSE KahnCountFromAssigns(DictSet(d, es[i][2], 1), es, i + 1)

RECURSIVE KahnCountFrom(_, _, _)
\* `in_degree[neighbor] = in_degree.get(neighbor, 0) + 1` for the edges
\* es[i], es[i+1], ... in scan order
KahnCountFrom(d, es, i) ==
    IF i > Len(es) THEN d
    ELSE KahnCountFrom(DictSet(d, es[i][2], DictGet(d, es[i][2], 0) + 1), es, i + 1)

KahnInDegree(g) == KahnCountFrom(KahnInitZero(g, 1), Edges(g), 1)

RECURSIVE KahnRelax(_, _, _)
\* `for neighbor in graph.get(current, []): in_degree[neighbor] -= 1; if
\* in_degree[neighbor] == 0: queue.append(neighbor)`, from the i-th successor on;
\* st is [in_degree, queue].
KahnRelax(st, succ, i) ==
    IF i > Len(succ) THEN st
    ELSE LET n == succ[i]
             d == DictSet(st.in_degree, n, st.in_degree.val[n] - 1)
         IN  KahnRelax([in_degree |-> d,
                        queue |-> IF d.val[n] = 0 THEN Append(st.queue, n)
                                  ELSE st.queue],
                       succ, i + 1)

\* The metrics record without execution_time_ms, which is wall-clock time.
KahnMetrics(V, E) ==
    [vertices |-> V, edges |-> E, theoretical_operations |-> V + E,
     actual_operations |-> V + E, space_complexity |-> V]

KahnIdle ==
    [pc |-> "idle", in_degree |-> EmptyDict, edge_count |-> 0, queue |-> <<>>,
     result |-> <<>>, processed_nodes |-> 0, remaining |-> {},
     metrics |-> <<>>]

\* Faulty variant of KahnEnter: the empty graph is refused.
KahnEnterRejectsEmpty(g) ==
    IF g = <<>>
    THEN [KahnIdle EXCEPT !.pc = "raised"]
    ELSE LET d == KahnInDegree(g)
         IN  [KahnIdle EXCEPT !.pc = "loop", !.in_degree = d,
                              !.edge_count = Len(Edges(g)),
                              !.queue = ZeroKeysFrom(d, 1)]

\* The empty graph returns at once; otherwise the in-degree
\* table is built and the queue seeded.
KahnEnter(g) ==
    IF g = <<>>
    THEN [KahnIdle EXCEPT !.pc = "returned", !.metrics = KahnMetrics(0, 0)]
    ELSE LET d == KahnInDegree(g)
         IN  [KahnIdle EXCEPT !.pc = "loop", !.in_degree = d,
                              !.edge_count = Len(Edges(g)),
                              !.queue = ZeroKeysFrom(d, 1)]

\* Faulty variant of KahnIterate: the queue is popped at its tail (pop()
\* for popleft()), last in, first out.
KahnIterateLifo(g, k) ==
    LET current == k.queue[Len(k.queue)]
        st == KahnRelax([in_degree |-> k.in_degree,
                         queue |-> SubSeq(k.queue, 1, Len(k.queue) - 1)],
                        Succ(g, current), 1)
    IN  [k EXCEPT !.result = Append(k.result, current),
                  !.processed_nodes = k.processed_nodes + 1,
                  !.in_degree = st.in_degree,
                  !.queue = st.queue]

\* One iteration of `while queue`.
KahnIterate(g, k) ==
    LET current == Head(k.queue)
        st == KahnRelax([in_degree |-> k.in_degree, queue |-> Tail(k.queue)],
                        Succ(g, current), 1)
    IN  [k EXCEPT !.result = Append(k.result, current),
                  !.processed_nodes = k.processed_nodes + 1,
                  !.in_degree = st.in_degree,
                  !.queue = st.queue]

\* Faulty variant of KahnExit: the result is measured against the keys of the
\* graph, not against the in-degree table.
KahnExitCountsKeys(g, k) ==
    IF Len(k.result) # Len(g)
    THEN [k EXCEPT !.pc = "raised",
                   !.remaining = Range(k.in_degree.keys) \ Range(k.result)]
    ELSE [k EXCEPT !.pc = "returned",
                   !.metrics = KahnMetrics(Len(g), k.edge_count)]

\* Faulty variant of KahnExit: the remaining nodes are taken among the keys
\* of the graph (`set(graph.keys()) - set(result)`).
KahnExitNamesKeys(g, k) ==
    IF Len(k.result) # Len(k.in_degree.keys)
    THEN [k EXCEPT !.pc = "raised",
                   !.remaining = (1..Len(g)) \ Range(k.result)]
    ELSE [k EXCEPT !.pc = "returned",
                   !.metrics = KahnMetrics(Len(g), k.edge_count)]

\* Faulty variant of KahnExit: the error names every tracked node, the
\* dequeued ones too.
KahnExitNamesTracked(g, k) ==
    IF Len(k.result) # Len(k.in_degree.keys)
    THEN [k EXCEPT !.pc = "raised", !.remaining = Range(k.in_degree.keys)]
    ELSE [k EXCEPT !.pc = "returned",
                   !.metrics = KahnMetrics(Len(g), k.edge_count)]

\* The cycle check, then the return.
KahnExit(g, k) ==
    IF Len(k.result) # Len(k.in_degree.keys)
    THEN [k EXCEPT !.pc = "raised",
                   !.remaining = Range(k.in_degree.keys) \ Range(k.result)]
    ELSE [k EXCEPT !.pc = "returned",
                   !.metrics = KahnMetrics(Len(g), k.edge_count)]

KahnStart ==
    /\ kahn.pc = "idle"
    /\ kahn' = KahnEnter(graph)
    /\ UNCHANGED <<graph, dfs, bfs, validation, earlier, analysis>>

\* Faulty variant of KahnDequeue: the dequeued node's edges are removed from
\* the caller's graph as they are relaxed.
KahnDequeueRemovesEdges ==
    /\ kahn.pc = "loop"
    /\ kahn.queue # <<>>
    /\ kahn' = KahnIterate(graph, kahn)
    /\ graph' = [i \in 1..Len(graph) |->
                    IF i = Head(kahn.queue) THEN <<>> ELSE graph[i]]
    /\ UNCHANGED <<dfs, bfs, validation, earlier, analysis>>

KahnDequeue ==
    /\ kahn.pc = "loop"
    /\ kahn.queue # <<>>
    /\ kahn' = KahnIterate(graph, kahn)
    /\ UNCHANGED <<graph, dfs, bfs, validation, earlier, analysis>>

KahnFinish ==
    /\ kahn.pc = "loop"
    /\ kahn.queue = <<>>
    /\ kahn' = KahnExit(graph, kahn)
    /\ UNCHANGED <<graph, dfs, bfs, validation, earlier, analysis>>

----------------------------------------------------------------------------
(* topological_sort_dfs *)

DfsIdle ==
    [pc |-> "idle", visited |-> {}, recursion_stack |-> {}, result_stack |-> <<>>,
     operations |-> 0, edge_count |-> 0,
     next_key |-> 1,      \* position of `for node in list(graph.keys())`
     calls |-> <<>>,      \* the active dfs calls, outermost first: the node and
                          \* the position of its `for neighbor in ...` loop
     error_node |-> 0,    \* the node named by the ValueError
     result |-> <<>>, metrics |-> <<>>]

DfsMetrics(V, E, ops, depth) ==
    [vertices |-> V, edges |-> E, theoretical_operations |-> V + E,
     actual_operations |-> ops, space_complexity |-> V, recursion_depth |-> depth]

\* Faulty variant of DfsEnter: the visited set outlives the call (a set
\* created once, outside the function).
DfsEnterKeepsVisited(g) ==
    IF g = <<>>
    THEN [DfsIdle EXCEPT !.pc = "returned", !.metrics = DfsMetrics(0, 0, 0, 0)]
    ELSE [DfsIdle EXCEPT !.pc = "run", !.visited = dfs.visited]

\* The empty graph returns at once; otherwise the sets, the
\* result stack and the counters are created.
DfsEnter(g) ==
    IF g = <<>>
    THEN [DfsIdle EXCEPT !.pc = "returned", !.metrics = DfsMetrics(0, 0, 0, 0)]
    ELSE [DfsIdle EXCEPT !.pc = "run"]

\* Faulty variant of DfsCall: a visited node is entered again.
DfsCallRevisits(d, node) ==
    IF node \in d.recursion_stack
    THEN [d EXCEPT !.pc = "raised", !.error_node = node]
    ELSE [d EXCEPT !.recursion_stack = d.recursion_stack \cup {node},
                   !.visited = d.visited \cup {node},
                   !.operations = d.operations + 1,
                   !.calls = Append(d.calls, [node |-> node, next |-> 1])]

\* Faulty variant of DfsCall: the error names the node the traversal started
\* from instead of the node met again.
DfsCallNamesRoot(d, node) ==
    IF node \in d.recursion_stack
    THEN [d EXCEPT !.pc = "raised", !.error_node = d.calls[1].node]
    ELSE IF node \in d.visited
    THEN d
    ELSE [d EXCEPT !.recursion_stack = d.recursion_stack \cup {node},
                   !.visited = d.visited \cup {node},
                   !.operations = d.operations + 1,
                   !.calls = Append(d.calls, [node |-> node, next |-> 1])]

\* The entry of dfs(node), up to its loop over the successors.
DfsCall(d, node) ==
    IF node \in d.recursion_stack
    THEN [d EXCEPT !.pc = "raised", !.error_node = node]
    ELSE IF node \in d.visited
    THEN d
    ELSE [d EXCEPT !.recursion_stack = d.recursion_stack \cup {node},
                   !.visited = d.visited \cup {node},
                   !.operations = d.operations + 1,
                   !.calls = Append(d.calls, [node |-> node, next |-> 1])]

\* One iteration of the loop over the keys.
DfsNextKey(g, d) ==
    LET node == Keys(g)[d.next_key]
        d1 == [d EXCEPT !.next_key = d.next_key + 1]
    IN  IF node \notin d.visited THEN DfsCall(d1, node) ELSE d1

\* Faulty variant of DfsNeighbor: a successor that is no key of the graph is
\* passed over (`if neighbor in graph: dfs(neighbor)`).
DfsNeighborSkipsNonKeys(g, d) ==
    LET top == d.calls[Len(d.calls)]
        neighbor == Succ(g, top.node)[top.next]
        d1 == [d EXCEPT !.edge_count = d.edge_count + 1,
                        !.calls[Len(d.calls)].next = top.next + 1]
    IN  IF neighbor \in 1..Len(g) THEN DfsCall(d1, neighbor) ELSE d1

\* One iteration of `for neighbor in graph.get(node, [])` in the
\* innermost active call.
DfsNeighbor(g, d) ==
    LET top == d.calls[Len(d.calls)]
        neighbor == Succ(g, top.node)[top.next]
        d1 == [d EXCEPT !.edge_count = d.edge_count + 1,
                        !.calls[Len(d.calls)].next = top.next + 1]
    IN  DfsCall(d1, neighbor)

\* Faulty variant of DfsLeave: the node stays in recursion_stack (the
\* `recursion_stack.remove(node)` is missing).
DfsLeaveKeepsOnStack(d) ==
    LET top == d.calls[Len(d.calls)]
    IN  [d EXCEPT !.result_stack = Append(d.result_stack, top.node),
                  !.operations = d.operations + 1,
                  !.calls = SubSeq(d.calls, 1, Len(d.calls) - 1)]

\* The innermost active call ends.
DfsLeave(d) ==
    LET top == d.calls[Len(d.calls)]
    IN  [d EXCEPT !.recursion_stack = d.recursion_stack \ {top.node},
                  !.result_stack = Append(d.result_stack, top.node),
                  !.operations = d.operations + 1,
                  !.calls = SubSeq(d.calls, 1, Len(d.calls) - 1)]

\* Faulty variant of DfsExit: the result stack is returned as it is.
DfsExitUnreversed(g, d) ==
    [d EXCEPT !.pc = "returned",
              !.result = d.result_stack,
              !.metrics = DfsMetrics(Len(g), d.edge_count, d.operations,
                                     Cardinality(d.recursion_stack))]

\* The reversal and the return.
DfsExit(g, d) ==
    [d EXCEPT !.pc = "returned",
              !.result = Reverse(d.result_stack),
              !.metrics = DfsMetrics(Len(g), d.edge_count, d.operations,
                                     Cardinality(d.recursion_stack))]

DfsStart ==
    /\ dfs.pc = "idle"
    /\ dfs' = DfsEnter(graph)
    /\ UNCHANGED <<graph, kahn, bfs, validation, earlier, analysis>>

DfsOuter ==
    /\ dfs.pc = "run"
    /\ dfs.calls = <<>>
    /\ dfs.next_key <= Len(graph)
    /\ dfs' = DfsNextKey(graph, dfs)
    /\ UNCHANGED <<graph, kahn, bfs, validation, earlier, analysis>>

DfsVisit ==
    /\ dfs.pc = "run"
    /\ dfs.calls # <<>>
    /\ dfs.calls[Len(dfs.calls)].next
         <= Len(Succ(graph, dfs.calls[Len(dfs.calls)].node))
    /\ dfs' = DfsNeighbor(graph, dfs)
    /\ UNCHANGED <<graph, kahn, bfs, validation, earlier, analysis>>

DfsReturn ==
    /\ dfs.pc = "run"
    /\ dfs.calls # <<>>
    /\ dfs.calls[Len(dfs.calls)].next
         > Len(Succ(graph, dfs.calls[Len(dfs.calls)].node))
    /\ dfs' = DfsLeave(dfs)
    /\ UNCHANGED <<graph, kahn, bfs, validation, earlier, analysis>>

DfsFinish ==
    /\ dfs.pc = "run"
    /\ dfs.calls = <<>>
    /\ dfs.next_key > Len(graph)
    /\ dfs' = DfsExit(graph, dfs)
    /\ UNCHANGED <<graph, kahn, bfs, validation, earlier, analysis>>

----------------------------------------------------------------------------
(* topological_sort_bfs *)

RECURSIVE BfsInitZero(_, _)
\* `for node in graph: in_degree[node] = 0`, from key i on
BfsInitZero(g, i) ==
    IF i > Len(g) THEN EmptyDict
    ELSE LET rest == BfsInitZero(g, i + 1)
         IN  [keys |-> <<i>> \o rest.keys,
              val |-> [x \in {i} \cup DOMAIN rest.val |-> 0]]

RECURSIVE BfsCountFrom(_, _, _)
\* `in_degree[neighbor] = in_degree.get(neighbor, 0) + 1` for the edges
\* es[i], es[i+1], ... in scan order
BfsCountFrom(d, es, i) ==
    IF i > Len(es) THEN d
    ELSE BfsCountFrom(DictSet(d, es[i][2], DictGet(d, es[i][2], 0) + 1), es, i + 1)

BfsInDegree(g) == BfsCountFrom(BfsInitZero(g, 1), Edges(g), 1)

RECURSIVE BfsRelaxEnqueuesFirst(_, _, _)
\* Faulty variant of BfsRelax: a node whose in-degree reaches zero is put at
\* the head of the queue (appendleft), inside the running batch.
BfsRelaxEnqueuesFirst(st, succ, i) ==
    IF i > Len(succ) THEN st
    ELSE LET n == succ[i]
             d == DictSet(st.in_degree, n, st.in_degree.val[n] - 1)
             zero == d.val[n] = 0
         IN  BfsRelaxEnqueuesFirst(
                 [st EXCEPT
                     !.in_degree = d,
                     !.queue = IF zero THEN <<n>> \o st.queue ELSE st.queue,
                     !.zero_batch = IF zero
                                    THEN DictSet(st.zero_batch, n, st.level)
                                    ELSE st.zero_batch],
                 succ, i + 1)

RECURSIVE BfsRelax(_, _, _)
\* `for neighbor in graph.get(current, []): in_degree[neighbor] -= 1; if
\* in_degree[neighbor] == 0: queue.append(neighbor)`, from the i-th successor
\* on; st is [in_degree, queue, zero_batch, level].  zero_batch is a history
\* variable, not in the code: the batch (current_level) during which the
\* node's in-degree reached zero.
BfsRelax(st, succ, i) ==
    IF i > Len(succ) THEN st
    ELSE LET n == succ[i]
             d == DictSet(st.in_degree, n, st.in_degree.val[n] - 1)
             zero == d.val[n] = 0
         IN  BfsRelax([st EXCEPT
                         !.in_degree = d,
                         !.queue = IF zero THEN Append(st.queue, n) ELSE st.queue,
                         !.zero_batch = IF zero
                                        THEN DictSet(st.zero_batch, n, st.level)
                                        ELSE st.zero_batch],
                      succ, i + 1)

BfsMetrics(V, E, max_level, max_queue_size) ==
    [vertices |-> V, edges |-> E, theoretical_operations |-> V + E,
     actual_operations |-> V + E, space_complexity |-> V,
     max_level |-> max_level, max_queue_size |-> max_queue_size]

BfsIdle ==
    [pc |-> "idle", in_degree |-> EmptyDict, edge_count |-> 0, queue |-> <<>>,
     result |-> <<>>, levels |-> EmptyDict, current_level |-> 0,
     processed_nodes |-> 0, max_queue_size |-> 0, level_size |-> 0,
     todo |-> 0,          \* iterations left of `for _ in range(level_size)`
     zero_batch |-> EmptyDict,
     metrics |-> <<>>]

\* Faulty variant of BfsEnter: the in-degree table is one table shared with
\* topological_sort_kahn, which BFS reads as a running Kahn call has left it.
BfsEnterSharesInDegree(g) ==
    IF g = <<>>
    THEN [BfsIdle EXCEPT !.pc = "returned"]
    ELSE LET d == IF kahn.pc = "loop" THEN kahn.in_degree ELSE BfsInDegree(g)
             q == ZeroKeysFrom(d, 1)
         IN  [BfsIdle EXCEPT
                 !.pc = "loop", !.in_degree = d, !.edge_count = Len(Edges(g)),
                 !.queue = q,
                 !.levels = [keys |-> d.keys, val |-> [x \in DOMAIN d.val |-> 0]],
                 !.max_queue_size = Len(q)]

\* The empty graph returns [], {}, {} at once; otherwise the
\* in-degree table, the queue and the levels are created.
BfsEnter(g) ==
    IF g = <<>>
    THEN [BfsIdle EXCEPT !.pc = "returned"]
    ELSE LET d == BfsInDegree(g)
             q == ZeroKeysFrom(d, 1)
         IN  [BfsIdle EXCEPT
                 !.pc = "loop", !.in_degree = d, !.edge_count = Len(Edges(g)),
                 !.queue = q,
                 !.levels = [keys |-> d.keys, val |-> [x \in DOMAIN d.val |-> 0]],
                 !.max_queue_size = Len(q)]

\* Faulty variant of BfsSizeBatch: the largest queue size is not updated, it
\* stays the size of the seed.
BfsSizeBatchKeepsSeed(b) ==
    [b EXCEPT !.level_size = Len(b.queue), !.todo = Len(b.queue)]

\* Faulty variant of BfsSizeBatch: the batch is sized one too small, so a
\* queue of one node is never popped.
BfsSizeBatchShort(b) ==
    [b EXCEPT !.level_size = Len(b.queue) - 1,
              !.todo = Len(b.queue) - 1,
              !.max_queue_size = IF Len(b.queue) > b.max_queue_size
                                 THEN Len(b.queue) ELSE b.max_queue_size]

\* `while queue` is entered and the batch is sized.
BfsSizeBatch(b) ==
    [b EXCEPT !.level_size = Len(b.queue),
              !.todo = Len(b.queue),
              !.max_queue_size = IF Len(b.queue) > b.max_queue_size
                                 THEN Len(b.queue) ELSE b.max_queue_size]

\* Faulty variant of BfsIterate: `current_level += 1` after every node.
BfsIterateLevelPerNode(g, b) ==
    LET current == Head(b.queue)
        st == BfsRelax([in_degree |-> b.in_degree, queue |-> Tail(b.queue),
                        zero_batch |-> b.zero_batch, level |-> b.current_level],
                       Succ(g, current), 1)
    IN  [b EXCEPT !.result = Append(b.result, current),
                  !.levels = DictSet(b.levels, current, b.current_level),
                  !.processed_nodes = b.processed_nodes + 1,
                  !.in_degree = st.in_degree,
                  !.queue = st.queue,
                  !.zero_batch = st.zero_batch,
                  !.todo = b.todo - 1,
                  !.current_level = b.current_level + 1]

\* Faulty variant of BfsIterate: a batch goes on until the queue is empty, so
\* the nodes enqueued during a batch are processed within it.
BfsIterateDrainsQueue(g, b) ==
    LET current == Head(b.queue)
        st == BfsRelax([in_degree |-> b.in_degree, queue |-> Tail(b.queue),
                        zero_batch |-> b.zero_batch, level |-> b.current_level],
                       Succ(g, current), 1)
    IN  [b EXCEPT !.result = Append(b.result, current),
                  !.levels = DictSet(b.levels, current, b.current_level),
                  !.processed_nodes = b.processed_nodes + 1,
                  !.in_degree = st.in_degree,
                  !.queue = st.queue,
                  !.zero_batch = st.zero_batch,
                  !.todo = Len(st.queue),
                  !.current_level = IF st.queue = <<>> THEN b.current_level + 1
                                    ELSE b.current_level]

\* Faulty variant of BfsIterate: the queue is popped at its tail (pop() for
\* popleft()).
BfsIterateLifo(g, b) ==
    LET current == b.queue[Len(b.queue)]
        st == BfsRelax([in_degree |-> b.in_degree,
                        queue |-> SubSeq(b.queue, 1, Len(b.queue) - 1),
                        zero_batch |-> b.zero_batch, level |-> b.current_level],
                       Succ(g, current), 1)
    IN  [b EXCEPT !.result = Append(b.result, current),
                  !.levels = DictSet(b.levels, current, b.current_level),
                  !.processed_nodes = b.processed_nodes + 1,
                  !.in_degree = st.in_degree,
                  !.queue = st.queue,
                  !.zero_batch = st.zero_batch,
                  !.todo = b.todo - 1,
                  !.current_level = IF b.todo = 1 THEN b.current_level + 1
                                    ELSE b.current_level]

\* One iteration of `for _ in range(level_size)`; the last one
\* of a batch is followed by `current_level += 1`.
BfsIterate(g, b) ==
    LET current == Head(b.queue)
        st == BfsRelax([in_degree |-> b.in_degree, queue |-> Tail(b.queue),
                        zero_batch |-> b.zero_batch, level |-> b.current_level],
                       Succ(g, current), 1)
    IN  [b EXCEPT !.result = Append(b.result, current),
                  !.levels = DictSet(b.levels, current, b.current_level),
                  !.processed_nodes = b.processed_nodes + 1,
                  !.in_degree = st.in_degree,
                  !.queue = st.queue,
                  !.zero_batch = st.zero_batch,
                  !.todo = b.todo - 1,
                  !.current_level = IF b.todo = 1 THEN b.current_level + 1
                                    ELSE b.current_level]

\* The cycle check, then the return.
BfsExit(g, b) ==
    IF Len(b.result) # Len(b.in_degree.keys)
    THEN [b EXCEPT !.pc = "raised"]
    ELSE [b EXCEPT !.pc = "returned",
                   !.metrics = BfsMetrics(Len(g), b.edge_count,
                                          b.current_level - 1, b.max_queue_size)]

BfsStart ==
    /\ bfs.pc = "idle"
    /\ bfs' = BfsEnter(graph)
    /\ UNCHANGED <<graph, kahn, dfs, validation, earlier, analysis>>

BfsBatch ==
    /\ bfs.pc = "loop"
    /\ bfs.todo = 0
    /\ bfs.queue # <<>>
    /\ bfs' = BfsSizeBatch(bfs)
    /\ UNCHANGED <<graph, kahn, dfs, validation, earlier, analysis>>

BfsDequeue ==
    /\ bfs.pc = "loop"
    /\ bfs.todo > 0
    /\ bfs' = BfsIterate(graph, bfs)
    /\ UNCHANGED <<graph, kahn, dfs, validation, earlier, analysis>>

BfsFinish ==
    /\ bfs.pc = "loop"
    /\ bfs.todo = 0
    /\ bfs.queue = <<>>
    /\ bfs' = BfsExit(graph, bfs)
    /\ UNCHANGED <<graph, kahn, dfs, validation, earlier, analysis>>

----------------------------------------------------------------------------
(* analyze_dependency_levels *)

RECURSIVE AnalyzeFromOverwrites(_, _, _)
\* Faulty variant of AnalyzeFrom: a group is replaced by its latest node.
AnalyzeFromOverwrites(levels, level_groups, i) ==
    IF i > Len(levels.keys) THEN level_groups
    ELSE LET node == levels.keys[i]
             level == levels.val[node]
         IN  AnalyzeFromOverwrites(levels, DictSet(level_groups, level, <<node>>),
                                   i + 1)

RECURSIVE AnalyzeFrom(_, _, _)
\* `for node, level in levels.items()`, from the i-th item on: a level met for
\* the first time gets an empty group, then the node is appended to the
\* group of its level.
AnalyzeFrom(levels, level_groups, i) ==
    IF i > Len(levels.keys) THEN level_groups
    ELSE LET node == levels.keys[i]
             level == levels.val[node]
             g == IF level \notin DOMAIN level_groups.val
                  THEN DictSet(level_groups, level, <<>>)
                  ELSE level_groups
         IN  AnalyzeFrom(levels, DictSet(g, level, Append(g.val[level], node)),
                         i + 1)

analyze_dependency_levels(levels) == AnalyzeFrom(levels, EmptyDict, 1)

NoAnalysis == [called |-> FALSE, levels |-> EmptyDict, level_groups |-> EmptyDict]

\* A caller groups a levels mapping.
Analyze(levels) ==
    /\ ~analysis.called
    /\ analysis' = [called |-> TRUE, levels |-> levels,
                    level_groups |-> analyze_dependency_levels(levels)]
    /\ UNCHANGED <<graph, kahn, dfs, bfs, validation, earlier>>

----------------------------------------------------------------------------
(* validate_topological_order *)

\* `{node: idx for idx, node in enumerate(order)}`: a node that occurs twice
\* keeps its last index.  Indices count from 0.
Position(order) ==
    [n \in Range(order) |->
        (CHOOSE i \in 1..Len(order) :
            /\ order[i] = n
            /\ \A j \in (i + 1)..Len(order) : order[j] # n) - 1]

ValidMessage == [text |-> "Valid topological order", args |-> <<>>]

EmptyMessage == [text |-> "Empty order is valid for empty graph", args |-> <<>>]

\* Faulty variant of InvalidMessage: the two positions are exchanged.
InvalidMessageSwapped(node, npos, neighbor, mpos) ==
    [text |-> "Invalid order", args |-> <<node, mpos, neighbor, npos>>]

\* f"Invalid order: {node} (position ..) should come before {neighbor} (position ..)"
InvalidMessage(node, npos, neighbor, mpos) ==
    [text |-> "Invalid order", args |-> <<node, npos, neighbor, mpos>>]

RECURSIVE ValidateScanStrict(_, _, _)
\* Faulty variant of ValidateScan: `>` for `>=`.
ValidateScanStrict(position, es, i) ==
    IF i > Len(es)
    THEN [kind |-> "return", valid |-> TRUE, message |-> ValidMessage]
    ELSE LET node == es[i][1]
             neighbor == es[i][2]
         IN  IF node \notin DOMAIN position
             THEN [kind |-> "KeyError", key |-> node]
             ELSE IF neighbor \notin DOMAIN position
             THEN [kind |-> "KeyError", key |-> neighbor]
             ELSE IF position[node] > position[neighbor]
             THEN [kind |-> "return", valid |-> FALSE,
                   message |-> [text |-> "Invalid order",
                                args |-> <<node, position[node],
                                           neighbor, position[neighbor]>>]]
             ELSE ValidateScanStrict(position, es, i + 1)

RECURSIVE ValidateScan(_, _, _)
\* The two loops over the edges es[i], es[i+1], ...  A lookup of a node that
\* the order does not hold raises KeyError, position[node] being read first.
ValidateScan(position, es, i) ==
    IF i > Len(es)
    THEN [kind |-> "return", valid |-> TRUE, message |-> ValidMessage]
    ELSE LET node == es[i][1]
             neighbor == es[i][2]
         IN  IF node \notin DOMAIN position
             THEN [kind |-> "KeyError", key |-> node]
             ELSE IF neighbor \notin DOMAIN position
             THEN [kind |-> "KeyError", key |-> neighbor]
             ELSE IF position[node] >= position[neighbor]
             THEN [kind |-> "return", valid |-> FALSE,
                   message |-> InvalidMessage(node, position[node],
                                              neighbor, position[neighbor])]
             ELSE ValidateScan(position, es, i + 1)

\* Faulty variant of validate_topological_order: no test of the empty order.
ValidateWithoutEmptyTest(g, order) == ValidateScan(Position(order), Edges(g), 1)

validate_topological_order(g, order) ==
    IF order = <<>>
    THEN [kind |-> "return", valid |-> TRUE, message |-> EmptyMessage]
    ELSE ValidateScan(Position(order), Edges(g), 1)

NoValidation == [of |-> "none", order |-> <<>>, out |-> [kind |-> "none"]]

\* run_all_algorithms validates the order a sorter has returned.
ValidateResult(of, order) ==
    /\ validation' = [of |-> of, order |-> order,
                      out |-> validate_topological_order(graph, order)]
    /\ UNCHANGED <<graph, kahn, dfs, bfs, earlier, analysis>>

ValidateKahn ==
    /\ kahn.pc = "returned"
    /\ validation.of = "none"
    /\ ValidateResult("kahn", kahn.result)

ValidateDfs ==
    /\ dfs.pc = "returned"
    /\ validation.of \in {"none", "kahn"}
    /\ ValidateResult("dfs", dfs.result)

ValidateBfs ==
    /\ bfs.pc = "returned"
    /\ validation.of \in {"none", "kahn", "dfs"}
    /\ ValidateResult("bfs", bfs.result)

\* A caller validates an order of its own.
ValidateOrder(order) ==
    /\ validation.of = "none"
    /\ ValidateResult("caller", order)

----------------------------------------------------------------------------
(* The caller: the graph literal, then the calls in the order of
   run_all_algorithms *)

Untouched ==
    /\ kahn.pc = "idle" /\ dfs.pc = "idle" /\ bfs.pc = "idle"
    /\ validation.of = "none"

\* A further key, with an empty successor list.
AddKey(maxNodes) ==
    /\ Untouched
    /\ Len(graph) < maxNodes
    /\ graph' = Append(graph, <<>>)
    /\ UNCHANGED <<kahn, dfs, bfs, validation, earlier, analysis>>

\* A further successor of the last key.
AddEdge(maxNodes, maxEdges, n) ==
    /\ Untouched
    /\ graph # <<>>
    /\ Len(Edges(graph)) < maxEdges
    /\ n \in 1..maxNodes
    /\ graph' = [graph EXCEPT ![Len(graph)] = Append(@, n)]
    /\ UNCHANGED <<kahn, dfs, bfs, validation, earlier, analysis>>

\* What a finished call hands to its caller: the returned tuple (the metrics
\* without execution_time_ms, a clock reading) or the ValueError with what
\* its message names.
KahnOutcome(k) ==
    IF k.pc = "returned"
    THEN [kind |-> "return", result |-> k.result, metrics |-> k.metrics]
    ELSE [kind |-> "ValueError",
          text |-> "Graph contains cycle involving nodes", nodes |-> k.remaining]

DfsOutcome(d) ==
    IF d.pc = "returned"
    THEN [kind |-> "return", result |-> d.result, metrics |-> d.metrics]
    ELSE [kind |-> "ValueError",
          text |-> "Cycle detected involving node", node |-> d.error_node]

BfsOutcome(b) ==
    IF b.pc = "returned"
    THEN [kind |-> "return", result |-> b.result, levels |-> b.levels,
          metrics |-> b.metrics]
    ELSE [kind |-> "ValueError",
          text |-> "Graph contains a cycle - topological sort impossible"]

NoOutcome == [kind |-> "none"]

NoEarlier == [kahn |-> NoOutcome, dfs |-> NoOutcome, bfs |-> NoOutcome]

\* The caller keeps what a finished call gave and calls the same sorter on
\* the same graph once more.
KahnAgain ==
    /\ kahn.pc \in {"returned", "raised"}
    /\ earlier.kahn = NoOutcome
    /\ earlier' = [earlier EXCEPT !.kahn = KahnOutcome(kahn)]
    /\ kahn' = KahnEnter(graph)
    /\ UNCHANGED <<graph, dfs, bfs, validation, analysis>>

DfsAgain ==
    /\ dfs.pc \in {"returned", "raised"}
    /\ earlier.dfs = NoOutcome
    /\ earlier' = [earlier EXCEPT !.dfs = DfsOutcome(dfs)]
    /\ dfs' = DfsEnter(graph)
    /\ UNCHANGED <<graph, kahn, bfs, validation, analysis>>

BfsAgain ==
    /\ bfs.pc \in {"returned", "raised"}
    /\ earlier.bfs = NoOutcome
    /\ earlier' = [earlier EXCEPT !.bfs = BfsOutcome(bfs)]
    /\ bfs' = BfsEnter(graph)
    /\ UNCHANGED <<graph, kahn, dfs, validation, analysis>>

KahnOver == kahn.pc = "raised" \/ (kahn.pc = "returned" /\ validation.of = "kahn")

DfsOver == dfs.pc = "raised" \/ (dfs.pc = "returned" /\ validation.of = "dfs")

\* The diamond of the tests, A -> [B, C], B -> [D], C -> [D], D -> [], with
\* A, B, C, D as 1, 2, 3, 4.
Diamond == <<<<2, 3>>, <<4>>, <<4>>, <<>>>>

\* Faulty variant of get_citation_graph: the oldest paper is entered as
\* citing the newest one.
CitationGraphCitesForward ==
    <<<<10>>, <<1>>, <<2>>, <<3>>, <<1, 3>>, <<4, 5>>, <<2>>, <<6, 7>>, <<5>>,
      <<8, 9>>>>

\* The reference citation graph, its ten keys in the order of the dict
\* literal as 1..10: 1 microbiome_study_2017, 2 crop_protection_2019,
\* 3 sustainable_ag_2020, 4 carrot_experiment_2021, 5 nanofertilizers_2022,
\* 6 innovations_review_2023, 7 precision_ag_2023,
\* 8 microbe_interactions_2024, 9 bionano_fertilizers_2024,
\* 10 climate_review_2024.
get_citation_graph ==
    <<<<>>, <<1>>, <<2>>, <<3>>, <<1, 3>>, <<4, 5>>, <<2>>, <<6, 7>>, <<5>>,
      <<8, 9>>>>

\* The caller starts from the empty dict literal, which it extends within the
\* bounds, or holds the diamond or the reference citation graph.
Init ==
    /\ graph \in {<<>>, Diamond, get_citation_graph}
    /\ kahn = KahnIdle
    /\ dfs = DfsIdle
    /\ bfs = BfsIdle
    /\ validation = NoValidation
    /\ earlier = NoEarlier
    /\ analysis = NoAnalysis

Next ==
    \/ AddKey(MaxNodes)
    \/ \E n \in 1..MaxNodes : AddEdge(MaxNodes, MaxEdges, n)
    \/ KahnStart
    \/ KahnDequeue
    \/ KahnFinish
    \/ ValidateKahn
    \/ (KahnOver /\ DfsStart)
    \/ DfsOuter
    \/ DfsVisit
    \/ DfsReturn
    \/ DfsFinish
    \/ ValidateDfs
    \/ (DfsOver /\ BfsStart)
    \/ BfsBatch
    \/ BfsDequeue
    \/ BfsFinish
    \/ ValidateBfs

Spec == Init /\ [][Next]_vars

\* The same calls with their scheduling: a call that has been entered goes
\* on, one step after the other, as long as it has a step to take.
NextT ==
    \/ AddKey(MaxTNodes)
    \/ \E n \in 1..MaxTNodes : AddEdge(MaxTNodes, MaxTEdges, n)
    \/ KahnStart
    \/ KahnDequeue
    \/ KahnFinish
    \/ ValidateKahn
    \/ (KahnOver /\ DfsStart)
    \/ DfsOuter
    \/ DfsVisit
    \/ DfsReturn
    \/ DfsFinish
    \/ ValidateDfs
    \/ (DfsOver /\ BfsStart)
    \/ BfsBatch
    \/ BfsDequeue
    \/ BfsFinish
    \/ ValidateBfs

SpecT ==
    /\ Init
    /\ [][NextT]_vars
    /\ WF_vars(KahnDequeue \/ KahnFinish)
    /\ WF_vars(DfsOuter \/ DfsVisit \/ DfsReturn \/ DfsFinish)
    /\ WF_vars(BfsBatch \/ BfsDequeue \/ BfsFinish)

RECURSIVE KahnRun(_, _)
\* A call of topological_sort_kahn from frame k to its end, nothing else
\* running in between.
KahnRun(g, k) ==
    IF k.pc # "loop" THEN k
    ELSE IF k.queue # <<>> THEN KahnRun(g, KahnIterate(g, k))
    ELSE KahnExit(g, k)

RECURSIVE DfsRun(_, _)
\* A call of topological_sort_dfs from frame d to its end.
DfsRun(g, d) ==
    IF d.pc # "run" THEN d
    ELSE IF d.calls = <<>>
    THEN IF d.next_key <= Len(g) THEN DfsRun(g, DfsNextKey(g, d))
         ELSE DfsExit(g, d)
    ELSE IF d.calls[Len(d.calls)].next <= Len(Succ(g, d.calls[Len(d.calls)].node))
    THEN DfsRun(g, DfsNeighbor(g, d))
    ELSE DfsRun(g, DfsLeave(d))

RECURSIVE BfsRun(_, _)
\* A call of topological_sort_bfs from frame b to its end.
BfsRun(g, b) ==
    IF b.pc # "loop" THEN b
    ELSE IF b.todo > 0 THEN BfsRun(g, BfsIterate(g, b))
    ELSE IF b.queue # <<>> THEN BfsRun(g, BfsSizeBatch(b))
    ELSE BfsExit(g, b)

\* What each sorter gives when it is called on g and runs alone.
KahnAlone(g) == KahnOutcome(KahnRun(g, KahnEnter(g)))

DfsAlone(g) == DfsOutcome(DfsRun(g, DfsEnter(g)))

BfsAlone(g) == BfsOutcome(BfsRun(g, BfsEnter(g)))

\* Repeated calls, as in the tests' timing loops: each sorter in turn is
\* called on the graph and then called on it once more.
KahnTwice == kahn.pc \in {"returned", "raised"} /\ earlier.kahn # NoOutcome

DfsTwice == dfs.pc \in {"returned", "raised"} /\ earlier.dfs # NoOutcome

NextR ==
    \/ AddKey(MaxNodes)
    \/ \E n \in 1..MaxNodes : AddEdge(MaxNodes, MaxEdges, n)
    \/ KahnStart
    \/ KahnDequeue
    \/ KahnFinish
    \/ KahnAgain
    \/ (KahnTwice /\ DfsStart)
    \/ DfsOuter
    \/ DfsVisit
    \/ DfsReturn
    \/ DfsFinish
    \/ DfsAgain
    \/ (DfsTwice /\ BfsStart)
    \/ BfsBatch
    \/ BfsDequeue
    \/ BfsFinish
    \/ BfsAgain

SpecR == Init /\ [][NextR]_vars

\* Callers on independent threads: the three sorters run on the same graph
\* with their steps interleaved in any way.
NextC ==
    \/ AddKey(MaxCNodes)
    \/ \E n \in 1..MaxCNodes : AddEdge(MaxCNodes, MaxCEdges, n)
    \/ KahnStart
    \/ KahnDequeue
    \/ KahnFinish
    \/ DfsStart
    \/ DfsOuter
    \/ DfsVisit
    \/ DfsReturn
    \/ DfsFinish
    \/ BfsStart
    \/ BfsBatch
    \/ BfsDequeue
    \/ BfsFinish

SpecC == Init /\ [][NextC]_vars

\* The validator alone, on every order over the node ids.
Orders == UNION {[1..n -> 1..MaxNodes] : n \in 0..MaxOrderLen}

NextV ==
    \/ AddKey(MaxNodes)
    \/ \E n \in 1..MaxNodes : AddEdge(MaxNodes, MaxVEdges, n)
    \/ \E order \in Orders : ValidateOrder(order)

InitV == Init /\ graph = <<>>

SpecV == InitV /\ [][NextV]_vars

\* The grouping alone, on every mapping of distinct node ids to levels
\* 0..MaxLevel.
LevelKeys ==
    {k \in UNION {[1..n -> 1..MaxNodes] : n \in 0..MaxNodes} :
        \A i, j \in DOMAIN k : i # j => k[i] # k[j]}

LevelMaps ==
    UNION {{[keys |-> k, val |-> v] : v \in [Range(k) -> 0..MaxLevel]} :
           k \in LevelKeys}

NextL == \E levels \in LevelMaps : Analyze(levels)

SpecL == InitV /\ [][NextL]_vars

----------------------------------------------------------------------------
(* Vocabulary of the properties *)

\* The nodes with an edge to n.
Preds(g, n) == {i \in 1..Len(g) : \E j \in 1..Len(g[i]) : g[i][j] = n}

\* The nodes n has an edge to.
Succs(g, n) == IF n \in 1..Len(g) THEN {g[n][j] : j \in 1..Len(g[n])} ELSE {}

RECURSIVE Closure(_, _)
\* S and everything reachable from S.
Closure(g, S) ==
    LET T == S \cup UNION {Succs(g, x) : x \in S}
    IN  IF T = S THEN S ELSE Closure(g, T)

\* The nodes reachable from n by one edge or more.
Descendants(g, n) == Closure(g, Succs(g, n))

\* A directed cycle: a node reachable from itself (a self-loop is one).
HasCycle(g) == \E n \in NodesOf(g) : n \in Descendants(g, n)

Acyclic(g) == ~HasCycle(g)

Max(S) == CHOOSE x \in S : \A y \in S : y <= x

RECURSIVE LongestPathTo(_, _)
\* In an acyclic graph: the number of edges of the longest path that ends in n.
LongestPathTo(g, n) ==
    IF Preds(g, n) = {} THEN 0
    ELSE 1 + Max({LongestPathTo(g, p) : p \in Preds(g, n)})

\* order holds every node of g exactly once.
IsPermutationOfNodes(g, order) ==
    /\ Range(order) = NodesOf(g)
    /\ Len(order) = Cardinality(NodesOf(g))

\* The 0-based index of n's last occurrence in order (n occurs in order).
LastIndex(order, n) == Max({i \in 1..Len(order) : order[i] = n}) - 1

Sorters == {"kahn", "dfs", "bfs"}

FrameOf(a) == IF a = "kahn" THEN kahn ELSE IF a = "dfs" THEN dfs ELSE bfs

----------------------------------------------------------------------------
(* Properties *)

\* C1: on an acyclic graph, the order each of the three sorters returns is
\* accepted by validate_topological_order (it returns valid = true).
C1_Validity ==
    \A a \in Sorters :
        (validation.of = a /\ Acyclic(graph)) =>
            /\ FrameOf(a).pc = "returned"
            /\ validation.order = FrameOf(a).result
            /\ validation.out.kind = "return"
            /\ validation.out.valid

C1_Witness ==
    /\ Acyclic(graph)
    /\ Len(Edges(graph)) >= 2
    /\ validation.of = "bfs"
    /\ validation.out.kind = "return" /\ validation.out.valid
    /\ kahn.pc = "returned" /\ dfs.pc = "returned"
    /\ dfs.result # kahn.result

\* C2, as claimed: on an acyclic graph, the order each sorter returns has as
\* many entries as the graph has keys.
C2_LengthIsKeyCount ==
    \A a \in Sorters :
        (FrameOf(a).pc = "returned" /\ Acyclic(graph)) =>
            Len(FrameOf(a).result) = Len(graph)

\* C2, amended: on an acyclic graph, the order each sorter returns has as many
\* entries as there are distinct node ids among the keys and the successor
\* lists of the graph (the number of keys when every successor is a key).
C2_LengthIsNodeCount ==
    \A a \in Sorters :
        (FrameOf(a).pc = "returned" /\ Acyclic(graph)) =>
            /\ Len(FrameOf(a).result) = Cardinality(NodesOf(graph))
            /\ (NodesOf(graph) = 1..Len(graph) =>
                    Len(FrameOf(a).result) = Len(graph))

C2_Witness ==
    /\ Acyclic(graph)
    /\ NodesOf(graph) # 1..Len(graph)
    /\ \A a \in Sorters :
          /\ FrameOf(a).pc = "returned"
          /\ Len(FrameOf(a).result) = Len(graph) + 1

\* C3: a sorter raises only on a graph with a directed cycle (a self-loop is
\* one) and returns only on an acyclic graph; having raised it has returned
\* neither an order nor metrics.
C3_CycleRejection ==
    LET cyclic == HasCycle(graph)
    IN  \A a \in Sorters :
            /\ FrameOf(a).pc = "raised" => (cyclic /\ FrameOf(a).metrics = <<>>)
            /\ FrameOf(a).pc = "returned" => ~cyclic

C3_Witness ==
    /\ \E n \in NodesOf(graph) : <<n, n>> \in EdgeSet(graph)
    /\ \A a \in Sorters : FrameOf(a).pc = "raised"

\* C4: for a non-empty order that holds every node of the graph exactly once,
\* the validator returns, and returns valid = true exactly when every edge
\* node -> neighbor has node strictly before neighbor in the order; a
\* self-loop edge makes the order invalid.
C4_EdgeRule ==
    (/\ validation.of = "caller"
     /\ validation.order # <<>>
     /\ IsPermutationOfNodes(graph, validation.order)) =>
        /\ validation.out.kind = "return"
        /\ validation.out.valid <=>
              \A e \in EdgeSet(graph) :
                  LastIndex(validation.order, e[1]) < LastIndex(validation.order, e[2])
        /\ (\E n \in NodesOf(graph) : <<n, n>> \in EdgeSet(graph)) =>
              ~validation.out.valid

C4_Witness ==
    /\ validation.of = "caller"
    /\ Len(validation.order) = 3
    /\ IsPermutationOfNodes(graph, validation.order)
    /\ Len(Edges(graph)) = 2
    /\ validation.out.kind = "return" /\ validation.out.valid

\* C5, as claimed: validate_topological_order never raises; whatever the
\* graph and the order, it returns a (boolean, message) pair.
C5_NeverRaises ==
    validation.of # "none" =>
        /\ validation.out.kind = "return"
        /\ validation.out.valid \in BOOLEAN

\* C6: on the empty order the validator returns valid = true, whatever the
\* graph.
C6_EmptyOrderValid ==
    (validation.of = "caller" /\ validation.order = <<>>) =>
        /\ validation.out.kind = "return"
        /\ validation.out.valid

C6_Witness ==
    /\ validation.of = "caller"
    /\ validation.order = <<>>
    /\ Len(Edges(graph)) = 2
    /\ validation.out.kind = "return" /\ validation.out.valid

\* An edge is violated by an order that holds both its nodes, the first not
\* strictly before the second.
Violated(order, e) ==
    /\ e[1] \in Range(order) /\ e[2] \in Range(order)
    /\ LastIndex(order, e[1]) >= LastIndex(order, e[2])

\* The message of a returned valid = false names the first violated edge of
\* the scan (keys in iteration order, successors in list order) and the
\* positions of its two nodes.
NamesFirstViolation ==
    (validation.out.kind = "return" /\ ~validation.out.valid) =>
        LET es == Edges(graph)
        IN  \E i \in 1..Len(es) :
                /\ Violated(validation.order, es[i])
                /\ \A j \in 1..(i - 1) : ~Violated(validation.order, es[j])
                /\ validation.out.message.text = "Invalid order"
                /\ validation.out.message.args =
                      <<es[i][1], LastIndex(validation.order, es[i][1]),
                        es[i][2], LastIndex(validation.order, es[i][2])>>

NoEdgeViolated == \A e \in EdgeSet(graph) : ~Violated(validation.order, e)

C8_EmptyGraph ==
    graph = <<>> =>
        /\ \A a \in Sorters :
              FrameOf(a).pc # "idle" =>
                  (FrameOf(a).pc = "returned" /\ FrameOf(a).result = <<>>)
        /\ bfs.pc # "idle" => bfs.levels.keys = <<>>

C8_Witness ==
    /\ graph = <<>>
    /\ \A a \in Sorters : FrameOf(a).pc = "returned" /\ FrameOf(a).result = <<>>
    /\ bfs.levels = EmptyDict

\* C9: on an acyclic graph the levels of the BFS sorter cover every node, give
\* level 0 to exactly the nodes with no incoming edge, and give any other
\* node 1 + the largest level of the nodes with an edge to it, which is the
\* length of the longest path from a source to the node.
C9_Levels ==
    (bfs.pc = "returned" /\ Acyclic(graph) /\ graph # <<>>) =>
        /\ DOMAIN bfs.levels.val = NodesOf(graph)
        /\ \A n \in NodesOf(graph) :
              /\ bfs.levels.val[n] = 0 <=> Preds(graph, n) = {}
              /\ Preds(graph, n) # {} =>
                    bfs.levels.val[n] =
                        1 + Max({bfs.levels.val[p] : p \in Preds(graph, n)})
              /\ bfs.levels.val[n] = LongestPathTo(graph, n)
        /\ graph = Diamond => bfs.levels.val = <<0, 1, 1, 2>>

\* The diamond, sorted.
C9_Witness ==
    /\ graph = Diamond
    /\ bfs.pc = "returned"
    /\ bfs.levels = [keys |-> <<1, 2, 3, 4>>, val |-> <<0, 1, 1, 2>>]

\* C10, as claimed: the level of a node with an incoming edge is the index of
\* the batch during which its in-degree reached zero.
C10_LevelIsZeroBatch ==
    bfs.pc = "returned" =>
        \A n \in NodesOf(graph) :
            Preds(graph, n) # {} =>
                /\ n \in DOMAIN bfs.zero_batch.val
                /\ bfs.levels.val[n] = bfs.zero_batch.val[n]

\* C10, amended: the level of a node with an incoming edge is 1 + the index of
\* the batch during which its in-degree reached zero: the node is dequeued in
\* the batch that follows.
C10_LevelFollowsZeroBatch ==
    /\ bfs.pc = "returned" =>
          \A n \in NodesOf(graph) :
              Preds(graph, n) # {} =>
                  /\ n \in DOMAIN bfs.zero_batch.val
                  /\ bfs.levels.val[n] = bfs.zero_batch.val[n] + 1
    /\ \A n \in Range(bfs.result) \cap DOMAIN bfs.zero_batch.val :
          bfs.levels.val[n] = bfs.zero_batch.val[n] + 1

C10_Witness ==
    /\ bfs.pc = "returned"
    /\ \E n \in NodesOf(graph) :
          /\ Cardinality(Preds(graph, n)) = 2
          /\ bfs.zero_batch.val[n] = 1
          /\ bfs.levels.val[n] = 2

\* C11: in the BFS result on an acyclic graph, every key whose successor list
\* is empty (a foundational paper) has the highest level: its level equals
\* the maximum value in levels.
C11_FoundationalAtMaxLevel ==
    (bfs.pc = "returned" /\ graph # <<>> /\ Acyclic(graph)) =>
        \A node \in 1..Len(graph) :
            graph[node] = <<>> =>
                bfs.levels.val[node] =
                    Max({bfs.levels.val[n] : n \in DOMAIN bfs.levels.val})

\* The frame's current outcome, for a sorter that has finished.
OutcomeOf(a) ==
    IF a = "kahn" THEN KahnOutcome(kahn)
    ELSE IF a = "dfs" THEN DfsOutcome(dfs) ELSE BfsOutcome(bfs)

Finished(a) == FrameOf(a).pc \in {"returned", "raised"}

C13_InputsUnchanged ==
    [][/\ (kahn' # kahn \/ dfs' # dfs \/ bfs' # bfs \/ validation' # validation)
          => graph' = graph
       /\ validation' # validation =>
             /\ validation'.order = FrameOf(validation'.of).result
             /\ <<kahn, dfs, bfs>>' = <<kahn, dfs, bfs>>]_vars

\* The three sorters have returned on a graph with edges and the validator
\* has been called on a returned order.
C13_Witness ==
    /\ graph = Diamond
    /\ \A a \in Sorters : FrameOf(a).pc = "returned"
    /\ validation.of = "bfs"
    /\ validation.order = bfs.result
    /\ Len(bfs.result) = 4

\* C14: when the steps of the three sorters interleave on one graph, each
\* sorter returns, or raises, exactly what it gives when it runs alone on
\* that graph.
C14_Isolation ==
    /\ (kahn.pc \in {"returned", "raised"}) => KahnOutcome(kahn) = KahnAlone(graph)
    /\ (dfs.pc \in {"returned", "raised"}) => DfsOutcome(dfs) = DfsAlone(graph)
    /\ (bfs.pc \in {"returned", "raised"}) => BfsOutcome(bfs) = BfsAlone(graph)

\* Kahn returns on the diamond while the DFS call is inside its recursion
\* and the BFS call is inside a batch.
C14_Witness ==
    /\ graph = Diamond
    /\ kahn.pc = "returned" /\ Len(kahn.result) = 4
    /\ dfs.pc = "run" /\ Len(dfs.calls) = 2
    /\ bfs.pc = "loop" /\ bfs.todo = 1 /\ Len(bfs.result) = 2

CoreFields ==
    {"vertices", "edges", "theoretical_operations", "actual_operations",
     "space_complexity"}

\* C15: the metrics record of every sorter that returns, on the empty graph
\* too, has the core fields vertices, edges, theoretical_operations,
\* actual_operations and space_complexity, with vertices the number of keys,
\* theoretical_operations = vertices + edges and space_complexity = vertices.
C15_CoreMetrics ==
    \A a \in Sorters :
        FrameOf(a).pc = "returned" =>
            LET m == FrameOf(a).metrics
            IN  /\ CoreFields \subseteq DOMAIN m
                /\ m.vertices = Len(graph)
                /\ m.theoretical_operations = m.vertices + m.edges
                /\ m.space_complexity = m.vertices

\* The nodes of the dfs calls that are active, outermost first.
ActivePath(d) == [i \in 1..Len(d.calls) |-> d.calls[i].node]

\* C16: when the DFS sorter raises, the node its error names is on the active
\* recursion path at that moment (in recursion_stack, the node of an active
\* dfs call) and lies on a directed cycle of the graph; on the self-loop
\* graph {A: [A]} it is A.
C16_DfsNamesCycleNode ==
    dfs.pc = "raised" =>
        /\ dfs.error_node \in dfs.recursion_stack
        /\ dfs.error_node \in Range(ActivePath(dfs))
        /\ dfs.error_node \in Descendants(graph, dfs.error_node)
        /\ graph = <<<<1>>>> => dfs.error_node = 1

\* A -> B -> C -> B: the error names B, met again under A, B, C.
C16_Witness ==
    /\ graph = <<<<2>>, <<3>>, <<2>>>>
    /\ dfs.pc = "raised"
    /\ ActivePath(dfs) = <<1, 2, 3>>
    /\ dfs.error_node = 2

\* The nodes on a directed cycle and the nodes reachable from one.
CycleBound(g) ==
    UNION {Closure(g, {n}) : n \in {c \in NodesOf(g) : c \in Descendants(g, c)}}

\* C17: when the Kahn sorter raises, the set its error names is exactly the
\* set of tracked nodes (the keys and the successors) that were never
\* dequeued: all tracked nodes minus the nodes of the partial result.  These
\* are the nodes on a cycle or reachable from one.
C17_KahnNamesRemaining ==
    kahn.pc = "raised" =>
        /\ kahn.remaining = NodesOf(graph) \ Range(kahn.result)
        /\ kahn.remaining # {}
        /\ kahn.remaining = CycleBound(graph)

\* A -> B -> C -> B: A is dequeued, the error names B and C.
C17_Witness ==
    /\ graph = <<<<2>>, <<3>>, <<2>>>>
    /\ kahn.pc = "raised"
    /\ kahn.result = <<1>>
    /\ kahn.remaining = {2, 3}

\* C18: when the BFS sorter raises, its error carries the set of the nodes
\* that were never dequeued, as the error of the Kahn sorter does.
C18_BfsNamesRemaining ==
    bfs.pc = "raised" =>
        /\ "nodes" \in DOMAIN BfsOutcome(bfs)
        /\ BfsOutcome(bfs).nodes = NodesOf(graph) \ Range(bfs.result)

\* The nodes of levels whose level is level, in the iteration order of levels.
NodesAtLevel(levels, level) ==
    LET AtLevel(node) == levels.val[node] = level
    IN  SelectSeq(levels.keys, AtLevel)

\* C19: analyze_dependency_levels(levels) is a partition of the nodes of
\* levels: every node is in exactly one group, once, and that group is the
\* one keyed by the node's level; no group is empty; a group holds its nodes
\* in the iteration order of levels.
C19_Partition ==
    analysis.called =>
        LET levels == analysis.levels
            groups == analysis.level_groups
        IN  /\ Len(groups.keys) = Cardinality(Range(groups.keys))
            /\ Range(groups.keys) = DOMAIN groups.val
            /\ \A node \in Range(levels.keys) :
                  /\ levels.val[node] \in DOMAIN groups.val
                  /\ \A level \in DOMAIN groups.val :
                        Cardinality({i \in 1..Len(groups.val[level]) :
                                        groups.val[level][i] = node})
                          = IF level = levels.val[node] THEN 1 ELSE 0
            /\ \A level \in DOMAIN groups.val :
                  /\ groups.val[level] # <<>>
                  /\ groups.val[level] = NodesAtLevel(levels, level)

\* {B: 1, A: 0, C: 1} is grouped as {1: [B, C], 0: [A]}.
C19_Witness ==
    /\ analysis.called
    /\ analysis.levels = [keys |-> <<2, 1, 3>>, val |-> <<0, 1, 1>>]
    /\ analysis.level_groups.keys = <<1, 0>>
    /\ analysis.level_groups.val[1] = <<2, 3>>
    /\ analysis.level_groups.val[0] = <<1>>

\* C20: on the reference citation graph of get_citation_graph no sorter
\* raises, each sorter returns an order of exactly 10 entries, and
\* validate_topological_order accepts each of the three orders.
C20_ReferenceGraph ==
    graph = get_citation_graph =>
        /\ \A a \in Sorters :
              /\ FrameOf(a).pc # "raised"
              /\ FrameOf(a).pc = "returned" =>
                    /\ Len(FrameOf(a).result) = 10
                    /\ Range(FrameOf(a).result) = 1..10
        /\ validation.of \in Sorters =>
              /\ validation.order = FrameOf(validation.of).result
              /\ validation.out =
                    [kind |-> "return", valid |-> TRUE, message |-> ValidMessage]

\* The three sorters have returned on the reference graph, with the orders
\* the code gives, and the last of the three orders has been accepted.
C20_Witness ==
    /\ graph = get_citation_graph
    /\ kahn.pc = "returned"
    /\ kahn.result = <<10, 8, 9, 6, 7, 4, 5, 3, 2, 1>>
    /\ dfs.pc = "returned"
    /\ dfs.result = <<10, 9, 8, 7, 6, 5, 4, 3, 2, 1>>
    /\ bfs.pc = "returned"
    /\ bfs.result = <<10, 8, 9, 6, 7, 4, 5, 3, 2, 1>>
    /\ bfs.levels.val = <<6, 5, 4, 3, 3, 2, 2, 1, 1, 0>>
    /\ validation.of = "bfs"
    /\ validation.out.valid

\* C21: on every acyclic graph the edges metric of the DFS sorter is the
\* total number of entries of the successor lists, each edge counted once (4
\* for the diamond), and the Kahn and BFS sorters report the same value as
\* their edges metric.
C21_DfsEdges ==
    (\A a \in Sorters : FrameOf(a).pc = "returned") =>
        /\ dfs.metrics.edges = Len(Edges(graph))
        /\ graph = Diamond => dfs.metrics.edges = 4
        /\ "edges" \in DOMAIN kahn.metrics
        /\ kahn.metrics.edges = dfs.metrics.edges
        /\ "edges" \in DOMAIN bfs.metrics
        /\ bfs.metrics.edges = dfs.metrics.edges

\* The number of nodes to which levels gives the level l.
LevelCount(levels, l) == Cardinality({n \in DOMAIN levels.val : levels.val[n] = l})

\* C22: on every non-empty acyclic graph the BFS metrics agree with the
\* levels: max_level is the largest level, and max_queue_size is the size of
\* the largest batch, the largest number of nodes that share one level (the
\* seed batch, level 0, included).
C22_BfsMetricsMatchLevels ==
    (bfs.pc = "returned" /\ graph # <<>> /\ Acyclic(graph)) =>
        LET used == {bfs.levels.val[n] : n \in DOMAIN bfs.levels.val}
        IN  /\ bfs.metrics.max_level = Max(used)
            /\ bfs.metrics.max_queue_size =
                  Max({LevelCount(bfs.levels, l) : l \in used})

\* The diamond: levels 0, 1, 1, 2, the largest batch is the second one.
C22_Witness ==
    /\ graph = Diamond
    /\ bfs.pc = "returned"
    /\ bfs.metrics.max_level = 2
    /\ bfs.metrics.max_queue_size = 2
    /\ LevelCount(bfs.levels, 0) = 1

\* Node n belongs to batch k of the BFS frame b: it is a seed and k = 0, or
\* its in-degree reached zero during batch k - 1.
InBatch(b, n, k) ==
    IF n \in DOMAIN b.zero_batch.val THEN b.zero_batch.val[n] = k - 1 ELSE k = 0

\* The queue of the BFS frame b, by batches: while batch k runs, the todo
\* entries at the head are the nodes of batch k still to pop and the
\* entries behind them are the nodes whose in-degree reached zero during
\* batch k; between two batches the whole queue is the coming batch.
BatchShape(b) ==
    /\ b.pc = "loop" =>
          \A i \in 1..Len(b.queue) :
              IF b.todo = 0 \/ i <= b.todo
              THEN InBatch(b, b.queue[i], b.current_level)
              ELSE InBatch(b, b.queue[i], b.current_level + 1)
    /\ b.pc = "loop" => b.todo <= Len(b.queue)
    /\ b.pc \in {"returned", "raised"} =>
          \A n \in DOMAIN b.zero_batch.val :
              /\ n \in Range(b.result)
              /\ b.levels.val[n] = b.zero_batch.val[n] + 1

\* A pop of the BFS sorter: the head of the queue, a node of the running
\* batch k, is appended to the result with level k, and every node whose
\* in-degree reaches zero by it waits in the queue, not popped.
PopRule ==
    (bfs.pc = "loop" /\ bfs'.pc = "loop" /\ bfs'.result # bfs.result) =>
        LET node == Head(bfs.queue)
            k == bfs.current_level
        IN  /\ bfs.todo > 0
            /\ bfs'.result = Append(bfs.result, node)
            /\ bfs'.levels.val[node] = k
            /\ InBatch(bfs, node, k)
            /\ \A n \in DOMAIN bfs'.zero_batch.val \ DOMAIN bfs.zero_batch.val :
                  /\ bfs'.zero_batch.val[n] = k
                  /\ n \in Range(bfs'.queue)
                  /\ n \notin Range(bfs'.result)

\* C23: a batch of the BFS sorter processes exactly the nodes that are in the
\* queue when it starts: every node popped in batch k gets levels[node] = k,
\* and a node whose in-degree reaches zero while batch k is processed is not
\* popped in batch k but in batch k + 1.
C23_Batches == [][PopRule /\ BatchShape(bfs')]_vars

\* {A: [C], B: [], C: []} during batch 0: A has been popped, B is still to
\* pop, and C, whose in-degree reached zero in this batch, waits behind B for
\* batch 1.
C23_Witness ==
    /\ graph = <<<<3>>, <<>>, <<>>>>
    /\ bfs.pc = "loop"
    /\ bfs.current_level = 0
    /\ bfs.todo = 1
    /\ bfs.result = <<1>>
    /\ bfs.queue = <<2, 3>>
    /\ bfs.zero_batch.val[3] = 0

\* The keys with no incoming edge, in the iteration order of the keys.
SeedsOf(g) ==
    LET NoPred(n) == Preds(g, n) = {}
    IN  SelectSeq(Keys(g), NoPred)

\* The 1-based index of n in order (n occurs in order).
IndexIn(order, n) == Max({i \in 1..Len(order) : order[i] = n})

\* The moment the in-degree of n, a node with incoming edges all from nodes
\* of order, reaches zero: the place in order of the last of its
\* predecessors, and the place of the last entry n in that predecessor's
\* successor list.
ReleaseOf(g, order, n) ==
    LET last == Max({IndexIn(order, p) : p \in Preds(g, n)})
        p == order[last]
    IN  <<last, Max({j \in 1..Len(g[p]) : g[p][j] = n})>>

ReleasedBefore(a, b) == a[1] < b[1] \/ (a[1] = b[1] /\ a[2] < b[2])

\* C24: the order of the Kahn sorter is the FIFO order: first all nodes of
\* in-degree zero, in the iteration order of the keys, then every other node
\* in the order in which its in-degree reaches zero, which is when the last
\* of its predecessors is dequeued, the successors of one node in the order
\* of that node's successor list.
C24_KahnFifo ==
    kahn.pc \in {"returned", "raised"} =>
        LET r == kahn.result
            seeds == SeedsOf(graph)
        IN  /\ Len(r) >= Len(seeds)
            /\ SubSeq(r, 1, Len(seeds)) = seeds
            /\ \A i \in (Len(seeds) + 1)..Len(r) :
                  /\ Preds(graph, r[i]) # {}
                  /\ Preds(graph, r[i]) \subseteq Range(r)
                  /\ ReleaseOf(graph, r, r[i])[1] < i
                  /\ \A j \in (i + 1)..Len(r) :
                        ReleasedBefore(ReleaseOf(graph, r, r[i]),
                                       ReleaseOf(graph, r, r[j]))

\* {A: [C, B], B: [], C: []}: A is the only seed, C comes before B as in A's
\* list, against the order of the keys.
C24_Witness ==
    /\ graph = <<<<3, 2>>, <<>>, <<>>>>
    /\ kahn.pc = "returned"
    /\ kahn.result = <<1, 3, 2>>

\* The number of successor-list entries n in the lists of the keys that are
\* not in dequeued.
EdgesInto(g, n, dequeued) ==
    Cardinality(UNION {{<<p, j>> : j \in {i \in 1..Len(g[p]) : g[p][i] = n}} :
                       p \in (1..Len(g)) \ dequeued})

\* The frame f of a queue sorter (Kahn or BFS), between two iterations: the
\* in-degree table counts the edges from the nodes not yet dequeued, and the
\* nodes enqueued so far, dequeued or still in the queue, are all different.
QueueFrameSound(g, f) ==
    f.pc \in {"loop", "returned", "raised"} /\ g # <<>> =>
        /\ DOMAIN f.in_degree.val = NodesOf(g)
        /\ \A n \in NodesOf(g) :
              /\ f.in_degree.val[n] >= 0
              /\ f.in_degree.val[n] = EdgesInto(g, n, Range(f.result))
        /\ LET enqueued == f.result \o f.queue
           IN  Len(enqueued) = Cardinality(Range(enqueued))

\* C25: during every run of the Kahn and BFS sorters, on acyclic and cyclic
\* graphs alike, every entry of the in-degree table is non-negative and is
\* the number of edges into the node from nodes not yet dequeued, and no node
\* is enqueued or appended to the result more than once.
C25_InDegreeSound ==
    /\ QueueFrameSound(graph, kahn)
    /\ QueueFrameSound(graph, bfs)

\* A -> B -> C -> B: Kahn has raised and BFS is in its loop, each with A
\* dequeued and the in-degrees of B and C left at 1.
C25_Witness ==
    /\ graph = <<<<2>>, <<3>>, <<2>>>>
    /\ kahn.pc = "raised"
    /\ kahn.in_degree.val = <<0, 1, 1>>
    /\ bfs.pc = "loop"
    /\ bfs.result = <<1>>
    /\ bfs.in_degree.val = <<0, 1, 1>>

\* C26: on every graph, cyclic or acyclic, a call of each of the three
\* sorters eventually finishes, returning a result or raising the cycle
\* error: the queue of the Kahn and BFS loops empties and the DFS recursion
\* runs out of nodes to expand.
C26_Termination ==
    /\ (kahn.pc = "loop") ~> (kahn.pc \in {"returned", "raised"})
    /\ (dfs.pc = "run") ~> (dfs.pc \in {"returned", "raised"})
    /\ (bfs.pc = "loop") ~> (bfs.pc \in {"returned", "raised"})

\* A -> B -> A: the three calls have ended, each by raising.
C26_Witness ==
    /\ graph = <<<<2>>, <<1>>>>
    /\ kahn.pc = "raised" /\ kahn.remaining = {1, 2}
    /\ dfs.pc = "raised" /\ dfs.operations = 2
    /\ bfs.pc = "raised" /\ bfs.processed_nodes = 0

\* C27: for every acyclic graph, also one in which a successor is no key, the
\* order each of the three sorters returns holds every node id that occurs
\* as a key or as a successor exactly once: no duplicate, no omission.
C27_WholeUniverse ==
    \A a \in Sorters :
        (FrameOf(a).pc = "returned" /\ Acyclic(graph)) =>
            LET order == FrameOf(a).result
            IN  \A n \in NodesOf(graph) \cup Range(order) :
                    Cardinality({i \in 1..Len(order) : order[i] = n}) =
                        IF n \in NodesOf(graph) THEN 1 ELSE 0

\* {A: [C], B: [C]} with C no key: each sorter has returned the three nodes.
C27_Witness ==
    /\ graph = <<<<3>>, <<3>>>>
    /\ \A a \in Sorters :
          /\ FrameOf(a).pc = "returned"
          /\ Len(FrameOf(a).result) = 3
          /\ 3 \in Range(FrameOf(a).result)

\* C28: the BFS sorter and the Kahn sorter are the same queue machine: on an
\* acyclic graph the two return the same order, and on a cyclic graph both
\* raise having dequeued the same sequence of nodes, with the same in-degree
\* table left; the batches add the levels and leave the dequeue order alone.
C28_SameQueueMachine ==
    (kahn.pc \in {"returned", "raised"} /\ bfs.pc \in {"returned", "raised"}) =>
        /\ bfs.pc = kahn.pc
        /\ bfs.result = kahn.result
        /\ bfs.in_degree = kahn.in_degree
        /\ bfs.processed_nodes = kahn.processed_nodes

\* {A: [], B: [C], C: [C]}: both have dequeued A, B and raised.
C28_Witness ==
    /\ graph = <<<<>>, <<3>>, <<3>>>>
    /\ kahn.pc = "raised" /\ kahn.result = <<1, 2>>
    /\ bfs.pc = "raised" /\ bfs.result = <<1, 2>>

\* C29: at every point of a DFS sort the recursion stack is a subset of the
\* visited set, the nodes appended to the result stack are exactly the
\* visited nodes that are not on the recursion stack, and a node is appended
\* only after all of its successors have been appended; when the sort
\* returns, the recursion stack is empty and recursion_depth is 0.
C29_DfsSets ==
    /\ dfs.recursion_stack \subseteq dfs.visited
    /\ dfs.recursion_stack = Range(ActivePath(dfs))
    /\ Range(dfs.result_stack) = dfs.visited \ dfs.recursion_stack
    /\ Len(dfs.result_stack) = Cardinality(Range(dfs.result_stack))
    /\ \A i \in 1..Len(dfs.result_stack) :
          \A s \in Succs(graph, dfs.result_stack[i]) :
              \E j \in 1..(i - 1) : dfs.result_stack[j] = s
    /\ dfs.pc = "returned" =>
          /\ dfs.recursion_stack = {}
          /\ dfs.metrics.recursion_depth = 0

\* The diamond, inside dfs(B) under dfs(A), after dfs(D) has ended.
C29_Witness ==
    /\ graph = Diamond
    /\ dfs.pc = "run"
    /\ ActivePath(dfs) = <<1, 2>>
    /\ dfs.visited = {1, 2, 4}
    /\ dfs.recursion_stack = {1, 2}
    /\ dfs.result_stack = <<4>>

\* n lies on a directed cycle of g.
OnCycle(g, n) == n \in Descendants(g, n)

\* The nodes from which n is reached by one edge or more.
Ancestors(g, n) == {m \in 1..Len(g) : n \in Descendants(g, m)}

\* C30: when the Kahn sorter fails on a cyclic graph, the nodes it reports as
\* remaining are exactly the nodes that lie on a directed cycle or are
\* reachable from a node on one; every node with no cycle among its
\* ancestors has been dequeued.
C30_RemainingFollowsCycles ==
    kahn.pc = "raised" =>
        \A n \in NodesOf(graph) :
            LET held == \E c \in Ancestors(graph, n) \cup {n} : OnCycle(graph, c)
            IN  /\ n \in kahn.remaining <=> held
                /\ n \in Range(kahn.result) <=> ~held

\* {A: [], B: [B, C]}, C no key: A is dequeued; B, on a cycle, and C, reached
\* from it, remain.
C30_Witness ==
    /\ graph = <<<<>>, <<2, 3>>>>
    /\ kahn.pc = "raised"
    /\ kahn.result = <<1>>
    /\ kahn.remaining = {2, 3}

====
